---- MODULE Spec2Model ----
(***************************************************************************)
(* State-machine model of summary_pyramid: the sliding-window pyramid      *)
(* builder (summary_pyramid.py) and the token-budget document chunker      *)
(* (chunk_document.py).                                                    *)
(*                                                                         *)
(* Indexes are kept as the Python code keeps them: start_idx / end_idx are *)
(* 0-based list positions, the recorded chunk ranges are the 1-based chunk *)
(* numbers the code stores.  TLA+ sequences are 1-based, so list position  *)
(* i of the code is element i + 1 of the modelling sequence.               *)
(***************************************************************************)
EXTENDS Integers, Sequences, FiniteSets, TLC

\* ------------------------------------------------------------------ bounds
MaxChunks == 5        \* number of chunks handed to get_summary_pyramid
MaxWindow == 3        \* window sizes explored
MaxStride == 3        \* strides explored
MaxLevel == 4         \* levels built before the exploration of a run stops
ExampleChunks == 23   \* the worked example: 23 chunks under the defaults
MaxTextChunks == 4    \* chunks of the builds of TextSpec
MaxWords == 3         \* words of a document handed to chunk_document
MaxSentenceWords == 4 \* words of a one-paragraph document of short words
MaxBudget == 3        \* tokens_per_chunk ranges over 1..MaxBudget
MaxDepth == 3         \* nested chunk_document calls explored
ShortWord == 2        \* characters of a short word
LongWord == 600       \* characters of a long word

\* ------------------------------------------------- program constants
DefaultBaseWindow == 10
DefaultBaseStride == 9
DefaultRecursiveWindow == 5
DefaultRecursiveStride == 4
VerifyLength == 1000      \* if len(chunk) > 1000
SentenceLength == 200     \* if len(sentence) < 200
ShortTextLength == 50     \* #if len(text) < 50 (disabled)

VARIABLES
    \* get_summary_pyramid and the two passes it drives
    pc,                     \* "idle" | "base" | "loop" | "recursive" | "done"
                            \* | "raised" | "answered" | "warned"
                            \* | "final_raised"
    total_chunks,           \* len(chunks)
    base_window_size, base_stride,
    recursive_window_size, recursive_stride,
    texts,                  \* the texts the reduction call may return
    start_idx,              \* the running pass's loop variable
    new_summaries,          \* summaries of the level under construction
    new_chunk_ranges,       \* their (start_chunk, end_chunk) ranges
    current_summaries, current_chunk_ranges, current_level,
    pyramid,                \* list of (summaries, chunk_ranges) levels
    windows,                \* per level, the (start_idx, end_idx) windows reduced
    calls,                  \* reduction calls that have returned a summary
    failed_call,            \* 0, or the number of the reduction call that raised
    \* chunk_document
    cpc,                    \* "idle" | "run" | "done"
    document,               \* the document of the outermost call
    tokens_per_chunk,
    stack,                  \* call stack of chunk_document, innermost last
    result,                 \* the list the outermost call returned
    token_requests          \* requests sent to the token-counting service

pyramidVars == <<pc, total_chunks, base_window_size, base_stride,
                 recursive_window_size, recursive_stride, texts, start_idx,
                 new_summaries, new_chunk_ranges, current_summaries,
                 current_chunk_ranges, current_level, pyramid, windows, calls,
                 failed_call>>

chunkVars == <<cpc, document, tokens_per_chunk, stack, result, token_requests>>

vars == <<pyramidVars, chunkVars>>

\* ---------------------------------------------------------------- helpers
Min(a, b) == IF a <= b THEN a ELSE b

\* seq[start_idx : end_idx + 1] of Python (0-based, clamped to the list)
Slice(seq, lo, hi) ==
    IF lo > hi THEN <<>> ELSE SubSeq(seq, lo + 1, Min(hi + 1, Len(seq)))

\* Variant of WindowEnd that forgets to clamp the window to the list.
WindowEndUnclamped(lo, window_size, total) == lo + window_size - 1

\* Variant of WindowEnd that makes the window one item too long.
WindowEndOneMore(lo, window_size, total) == Min(lo + window_size, total - 1)

\* end_idx = min(start_idx + window_size - 1, total - 1)
WindowEnd(lo, window_size, total) == Min(lo + window_size - 1, total - 1)

\* Variant of NextStart that steps one item too far.
NextStartSkips(lo, stride) == lo + stride + 1

\* start_idx += stride
NextStart(lo, stride) == lo + stride

\* Variant of BaseRange that leaves the range end 0-based.
BaseRangeEndZeroBased(lo, hi) == <<lo + 1, hi>>

\* (chunk_range_start, chunk_range_end) = (start_idx + 1, end_idx + 1)
BaseRange(lo, hi) == <<lo + 1, hi + 1>>

\* Variant of RecursiveRange that takes the range of the window's first
\* summary for the range of the whole window.
RecursiveRangeFirstItem(window_chunk_ranges) == window_chunk_ranges[1]

\* (window_chunk_ranges[0][0], window_chunk_ranges[-1][1])
RecursiveRange(window_chunk_ranges) ==
    <<window_chunk_ranges[1][1],
      window_chunk_ranges[Len(window_chunk_ranges)][2]>>

\* Variant of AppendLevel that overwrites the last level instead of adding one.
AppendLevelOverwrites(levels, level) ==
    IF levels = <<>> THEN <<level>>
    ELSE [levels EXCEPT ![Len(levels)] = level]

\* pyramid.append((summaries, chunk_ranges))
AppendLevel(levels, level) == Append(levels, level)

\* Variant of Unwind in which the pass catches the exception and goes on.
UnwindCaught(position) == position

\* An exception raised by the reduction call is caught neither by the
\* summary function, nor by the pass, nor by get_summary_pyramid: it leaves
\* all three, whatever the position of the build.
Unwind(position) == "raised"

\* ------------------------------------------------------------------- text
\* A text is a sequence of tokens.  A word token stands for a run of `len`
\* non-whitespace characters (`end`: the last of them is one of . ! ?) and
\* `id` is the position of the word in the document of the outermost call;
\* sp is one blank and nl one newline.  Two word tokens are never adjacent.
Word(i, n, e) == [k |-> "w", id |-> i, len |-> n, end |-> e]
sp == [k |-> "sp", id |-> 0, len |-> 1, end |-> FALSE]
nl == [k |-> "nl", id |-> 0, len |-> 1, end |-> FALSE]
IsSpace(t) == t.k # "w"

\* len(text)
RECURSIVE CharLen(_)
CharLen(text) ==
    IF text = <<>> THEN 0 ELSE Head(text).len + CharLen(Tail(text))

\* Variant of Join that yields the last part only.
JoinLastPart(parts, sep) == IF parts = <<>> THEN <<>> ELSE parts[Len(parts)]

\* sep.join(parts)
RECURSIVE Join(_, _)
Join(parts, sep) ==
    IF parts = <<>> THEN <<>>
    ELSE IF Len(parts) = 1 THEN parts[1]
    ELSE parts[1] \o sep \o Join(Tail(parts), sep)

\* text.split(): the maximal runs of non-whitespace, in order
RECURSIVE SplitFrom(_, _, _)
SplitFrom(text, i, run) ==
    IF i > Len(text)
    THEN IF run = <<>> THEN <<>> ELSE <<run>>
    ELSE IF IsSpace(text[i])
         THEN (IF run = <<>> THEN <<>> ELSE <<run>>) \o SplitFrom(text, i + 1, <<>>)
         ELSE SplitFrom(text, i + 1, Append(run, text[i]))
Split(text) == SplitFrom(text, 1, <<>>)

\* paragraph.strip(): empty exactly when the text holds no word
Strip(text) == SelectSeq(text, LAMBDA t : ~IsSpace(t))

\* last position of the whitespace run that starts at position p
RunEnd(text, p) ==
    CHOOSE r \in p..Len(text) :
        /\ \A j \in p..r : IsSpace(text[j])
        /\ r = Len(text) \/ ~IsSpace(text[r + 1])

\* re.split(r'\n\s*\n', text): a match starts at the first newline that is
\* followed, inside its whitespace run, by another newline, and (\s* being
\* greedy) ends at the last newline of that run.
ParagraphBreaks(text, from) ==
    {p \in from..Len(text) :
        /\ text[p].k = "nl"
        /\ \E q \in (p + 1)..RunEnd(text, p) : text[q].k = "nl"}
RECURSIVE SplitParagraphsFrom(_, _)
SplitParagraphsFrom(text, from) ==
    IF ParagraphBreaks(text, from) = {}
    THEN <<SubSeq(text, from, Len(text))>>
    ELSE LET p == CHOOSE x \in ParagraphBreaks(text, from) :
                     \A y \in ParagraphBreaks(text, from) : x <= y
             q == CHOOSE x \in (p + 1)..RunEnd(text, p) :
                     /\ text[x].k = "nl"
                     /\ \A y \in (x + 1)..RunEnd(text, p) : text[y].k # "nl"
         IN  <<SubSeq(text, from, p - 1)>> \o SplitParagraphsFrom(text, q + 1)
SplitParagraphs(text) == SplitParagraphsFrom(text, 1)

\* re.split(r'(?<=[.!?])\s+', paragraph): a match is a whole whitespace run
\* whose preceding character is one of . ! ?
SentenceBreaks(text, from) ==
    {p \in from..Len(text) :
        /\ p > 1
        /\ IsSpace(text[p])
        /\ ~IsSpace(text[p - 1]) /\ text[p - 1].end}
RECURSIVE SplitSentencesFrom(_, _)
SplitSentencesFrom(text, from) ==
    IF SentenceBreaks(text, from) = {}
    THEN <<SubSeq(text, from, Len(text))>>
    ELSE LET p == CHOOSE x \in SentenceBreaks(text, from) :
                     \A y \in SentenceBreaks(text, from) : x <= y
         IN  <<SubSeq(text, from, p - 1)>>
                \o SplitSentencesFrom(text, RunEnd(text, p) + 1)
SplitSentences(text) == SplitSentencesFrom(text, 1)

\* --------------------------------------------------------- token counting
\* estimate_tokens: int(len(text.split()) * 1.5)
estimate_tokens(text) == (3 * Len(Split(text))) \div 2

\* TokenCounter.count_tokens: returns estimate_tokens(text) at once
count_tokens(text) == estimate_tokens(text)

\* Variant of CountRequests in which count_tokens returns the estimate for
\* short texts only (if len(text) < 50) and sends a request for the others.
CountRequestsIfLong(text) == IF CharLen(text) < ShortTextLength THEN 0 ELSE 1

\* The requests one count_tokens call sends to the token-counting service:
\* none, the call returns before the rate-limit wait and the request.
CountRequests(text) == 0

\* estimated_tokens > tokens_per_chunk * 0.8
NearBudget(estimated_tokens, budget) == 10 * estimated_tokens > 8 * budget

\* chunk_tokens > tokens_per_chunk * 1.1
OverTolerance(chunk_tokens, budget) == 10 * chunk_tokens > 11 * budget

\* ------------------------------------------------------ segmentation tiers
\* The word loop of chunk_document over words[i..], then the flush of the
\* remaining word buffer; returns the chunks list.
RECURSIVE WordLoop(_, _, _, _, _, _)
WordLoop(words, i, chunks, word_buffer, word_buffer_tokens, budget) ==
    IF i > Len(words)
    THEN IF word_buffer # <<>>
         THEN Append(chunks, Join(word_buffer, <<sp>>))
         ELSE chunks
    ELSE LET word == words[i]
             word_tokens == estimate_tokens(word \o <<sp>>)
         IN  IF word_buffer_tokens + word_tokens <= budget
             THEN WordLoop(words, i + 1, chunks, Append(word_buffer, word),
                           word_buffer_tokens + word_tokens, budget)
             ELSE IF word_buffer # <<>>
                  THEN WordLoop(words, i + 1,
                                Append(chunks, Join(word_buffer, <<sp>>)),
                                <<word>>, word_tokens, budget)
                  ELSE WordLoop(words, i + 1, chunks, word_buffer,
                                word_buffer_tokens, budget)

\* sentence_tokens: the estimate for short sentences, the counter otherwise
SentenceTokens(sentence) ==
    IF CharLen(sentence) < SentenceLength
    THEN estimate_tokens(sentence)
    ELSE count_tokens(sentence)

\* The sentence loop over sentences[i..], then the flush of the remaining
\* sentence buffer; returns the chunks list.
RECURSIVE SentenceLoop(_, _, _, _, _, _)
SentenceLoop(sentences, i, chunks, sentence_buffer, buffer_tokens, budget) ==
    IF i > Len(sentences)
    THEN IF sentence_buffer # <<>>
         THEN Append(chunks, Join(sentence_buffer, <<sp>>))
         ELSE chunks
    ELSE LET sentence == sentences[i]
             sentence_tokens == SentenceTokens(sentence)
         IN  IF sentence_tokens > budget
             THEN SentenceLoop(sentences, i + 1,
                               WordLoop(Split(sentence), 1, chunks, <<>>, 0, budget),
                               sentence_buffer, buffer_tokens, budget)
             ELSE IF buffer_tokens + sentence_tokens > budget
                  THEN IF sentence_buffer # <<>>
                       THEN SentenceLoop(sentences, i + 1,
                                         Append(chunks, Join(sentence_buffer, <<sp>>)),
                                         <<sentence>>, sentence_tokens, budget)
                       ELSE SentenceLoop(sentences, i + 1, Append(chunks, sentence),
                                         sentence_buffer, buffer_tokens, budget)
                  ELSE SentenceLoop(sentences, i + 1, chunks,
                                    Append(sentence_buffer, sentence),
                                    buffer_tokens + sentence_tokens, budget)

\* Variant of ParagraphTokens that counts one token per word.
ParagraphTokensPerWord(paragraph, budget) == Len(Split(paragraph))

\* paragraph_tokens: the counter near the budget, the estimate otherwise
ParagraphTokens(paragraph, budget) ==
    IF NearBudget(estimate_tokens(paragraph), budget)
    THEN count_tokens(paragraph)
    ELSE estimate_tokens(paragraph)

\* The paragraph loop over paragraphs[i..], then the flush of the remaining
\* current chunk; returns the chunks list.
RECURSIVE ParagraphLoop(_, _, _, _, _, _)
ParagraphLoop(paragraphs, i, chunks, current_chunk, current_chunk_tokens, budget) ==
    IF i > Len(paragraphs)
    THEN IF current_chunk # <<>>
         THEN Append(chunks, Join(current_chunk, <<nl, nl>>))
         ELSE chunks
    ELSE LET paragraph == paragraphs[i]
             paragraph_tokens == ParagraphTokens(paragraph, budget)
         IN  IF Strip(paragraph) = <<>>
             THEN ParagraphLoop(paragraphs, i + 1, chunks, current_chunk,
                                current_chunk_tokens, budget)
             ELSE IF paragraph_tokens > budget
             THEN LET flushed == IF current_chunk # <<>>
                                 THEN Append(chunks, Join(current_chunk, <<nl, nl>>))
                                 ELSE chunks
                  IN  ParagraphLoop(paragraphs, i + 1,
                                    SentenceLoop(SplitSentences(paragraph), 1,
                                                 flushed, <<>>, 0, budget),
                                    IF current_chunk # <<>> THEN <<>> ELSE current_chunk,
                                    IF current_chunk # <<>> THEN 0 ELSE current_chunk_tokens,
                                    budget)
             ELSE IF current_chunk_tokens + paragraph_tokens > budget
             THEN ParagraphLoop(paragraphs, i + 1,
                                Append(chunks, Join(current_chunk, <<nl, nl>>)),
                                <<paragraph>>, paragraph_tokens, budget)
             ELSE ParagraphLoop(paragraphs, i + 1, chunks,
                                Append(current_chunk, paragraph),
                                current_chunk_tokens + paragraph_tokens, budget)

\* chunk_document up to its verification loop: the chunks list of tiers 1-3
FirstPass(doc, budget) ==
    ParagraphLoop(SplitParagraphs(doc), 1, <<>>, <<>>, 0, budget)

\* The requests of the count_tokens calls that tiers 1-3 make for a
\* paragraph: for the paragraph if it is near the budget, and, if it is over
\* the budget, for each of its sentences of 200 characters or more.
ParagraphRequests(paragraph, budget) ==
    IF Strip(paragraph) = <<>> THEN 0
    ELSE (IF NearBudget(estimate_tokens(paragraph), budget)
          THEN CountRequests(paragraph) ELSE 0)
         + (IF ParagraphTokens(paragraph, budget) > budget
            THEN LET sentences == SplitSentences(paragraph)
                     sum[j \in 0..Len(sentences)] ==
                         IF j = 0 THEN 0
                         ELSE sum[j - 1] +
                                 (IF CharLen(sentences[j]) < SentenceLength
                                  THEN 0 ELSE CountRequests(sentences[j]))
                 IN  sum[Len(sentences)]
            ELSE 0)

\* The requests of the count_tokens calls of tiers 1-3 for doc.
FirstPassRequests(doc, budget) ==
    LET paragraphs == SplitParagraphs(doc)
        sum[i \in 0..Len(paragraphs)] ==
            IF i = 0 THEN 0
            ELSE sum[i - 1] + ParagraphRequests(paragraphs[i], budget)
    IN  sum[Len(paragraphs)]

\* The requests of the verification loop for a chunk: count_tokens is
\* called for chunks of more than 1000 characters.
VerifyRequests(chunk) ==
    IF CharLen(chunk) > VerifyLength THEN CountRequests(chunk) ELSE 0

\* The verification loop re-segments this chunk.
NeedsResplit(chunk, budget) ==
    /\ CharLen(chunk) > VerifyLength
    /\ OverTolerance(count_tokens(chunk), budget)

\* ------------------------------------------------------------------- Init
PyramidIdle ==
    /\ pc = "idle"
    /\ total_chunks = 0
    /\ base_window_size = 0 /\ base_stride = 0
    /\ recursive_window_size = 0 /\ recursive_stride = 0
    /\ texts = {}
    /\ start_idx = 0
    /\ new_summaries = <<>> /\ new_chunk_ranges = <<>>
    /\ current_summaries = <<>> /\ current_chunk_ranges = <<>>
    /\ current_level = 0
    /\ pyramid = <<>>
    /\ windows = <<>>
    /\ calls = 0
    /\ failed_call = 0

\* get_summary_pyramid entered: total_chunks = len(chunks), pyramid = [],
\* get_base_summaries entered: summaries = [], chunk_ranges = [], start_idx = 0
\* with the reduction call returning any of the texts of T
PyramidCallTexts(n, bw, bs, rw, rs, T) ==
    /\ pc = "base"
    /\ total_chunks = n
    /\ base_window_size = bw /\ base_stride = bs
    /\ recursive_window_size = rw /\ recursive_stride = rs
    /\ texts = T
    /\ start_idx = 0
    /\ new_summaries = <<>> /\ new_chunk_ranges = <<>>
    /\ current_summaries = <<>> /\ current_chunk_ranges = <<>>
    /\ current_level = 0
    /\ pyramid = <<>>
    /\ windows = << <<>> >>
    /\ calls = 0
    /\ failed_call = 0

PyramidCall(n, bw, bs, rw, rs) == PyramidCallTexts(n, bw, bs, rw, rs, {"s"})

\* chunk_document is not running
ChunkIdle ==
    /\ cpc = "idle"
    /\ document = <<>>
    /\ tokens_per_chunk = 0
    /\ stack = <<>>
    /\ result = <<>>
    /\ token_requests = 0

Init ==
    /\ ChunkIdle
    /\ \/ \E n \in 0..MaxChunks, bw \in 1..MaxWindow, bs \in 1..MaxStride,
             rw \in 1..MaxWindow, rs \in 1..MaxStride :
             PyramidCall(n, bw, bs, rw, rs)
       \/ PyramidCall(ExampleChunks, DefaultBaseWindow, DefaultBaseStride,
                      DefaultRecursiveWindow, DefaultRecursiveStride)

\* ---------------------------------------------------------------- actions
\* One iteration of get_base_summaries' while loop: one window, one
\* get_base_summary call.
\* A pass over n items whose stride is at least 1 reduces at most n windows;
\* a pass that does not advance (stride 0) is followed for n + 1 windows.
BaseWindow ==
    /\ pc = "base"
    /\ start_idx < total_chunks
    /\ Len(new_summaries) <= total_chunks
    /\ LET end_idx == WindowEnd(start_idx, base_window_size, total_chunks)
       IN  /\ \E summary \in texts :
                new_summaries' = Append(new_summaries, summary)
           /\ new_chunk_ranges' =
                Append(new_chunk_ranges, BaseRange(start_idx, end_idx))
           /\ windows' = [windows EXCEPT ![1] = Append(@, <<start_idx, end_idx>>)]
    /\ calls' = calls + 1
    /\ start_idx' = NextStart(start_idx, base_stride)
    /\ UNCHANGED <<chunkVars, failed_call, pc, total_chunks, base_window_size, base_stride,
                   recursive_window_size, recursive_stride, texts,
                   current_summaries, current_chunk_ranges, current_level,
                   pyramid>>

\* The get_base_summary call of the next window raises.
BaseReduceFails ==
    /\ pc = "base"
    /\ start_idx < total_chunks
    /\ Len(new_summaries) <= total_chunks
    /\ failed_call' = calls + 1
    /\ pc' = Unwind(pc)
    /\ UNCHANGED <<chunkVars, total_chunks, base_window_size, base_stride,
                   recursive_window_size, recursive_stride, texts, start_idx,
                   new_summaries, new_chunk_ranges, current_summaries,
                   current_chunk_ranges, current_level, pyramid, windows,
                   calls>>

\* get_base_summaries returns; the base level is appended to the pyramid and
\* becomes the current level.
BaseReturn ==
    /\ pc = "base"
    /\ ~(start_idx < total_chunks)
    /\ pyramid' = AppendLevel(pyramid, <<new_summaries, new_chunk_ranges>>)
    /\ current_summaries' = new_summaries
    /\ current_chunk_ranges' = new_chunk_ranges
    /\ current_level' = 1
    /\ pc' = "loop"
    /\ UNCHANGED <<chunkVars, failed_call, total_chunks, base_window_size, base_stride,
                   recursive_window_size, recursive_stride, texts, start_idx,
                   new_summaries, new_chunk_ranges, windows, calls>>

\* while len(current_summaries) > 1: current_level += 1 and
\* get_recursive_summaries is entered.
LoopEnter ==
    /\ pc = "loop"
    /\ Len(current_summaries) > 1
    /\ current_level < MaxLevel
    /\ current_level' = current_level + 1
    /\ start_idx' = 0
    /\ new_summaries' = <<>>
    /\ new_chunk_ranges' = <<>>
    /\ windows' = Append(windows, <<>>)
    /\ pc' = "recursive"
    /\ UNCHANGED <<chunkVars, failed_call, total_chunks, base_window_size, base_stride,
                   recursive_window_size, recursive_stride, texts,
                   current_summaries, current_chunk_ranges, pyramid, calls>>

\* One iteration of get_recursive_summaries' while loop: one window, one
\* get_recursive_summary call.
RecursiveWindow ==
    /\ pc = "recursive"
    /\ start_idx < Len(current_summaries)
    /\ Len(new_summaries) <= Len(current_summaries)
    /\ LET total_summaries == Len(current_summaries)
           end_idx == WindowEnd(start_idx, recursive_window_size, total_summaries)
           window_chunk_ranges == Slice(current_chunk_ranges, start_idx, end_idx)
       IN  /\ \E recursive_summary \in texts :
                new_summaries' = Append(new_summaries, recursive_summary)
           /\ new_chunk_ranges' =
                Append(new_chunk_ranges, RecursiveRange(window_chunk_ranges))
           /\ windows' = [windows EXCEPT
                            ![current_level] = Append(@, <<start_idx, end_idx>>)]
    /\ calls' = calls + 1
    /\ start_idx' = NextStart(start_idx, recursive_stride)
    /\ UNCHANGED <<chunkVars, failed_call, pc, total_chunks, base_window_size, base_stride,
                   recursive_window_size, recursive_stride, texts,
                   current_summaries, current_chunk_ranges, current_level,
                   pyramid>>

\* The get_recursive_summary call of the next window raises.
RecursiveReduceFails ==
    /\ pc = "recursive"
    /\ start_idx < Len(current_summaries)
    /\ Len(new_summaries) <= Len(current_summaries)
    /\ failed_call' = calls + 1
    /\ pc' = Unwind(pc)
    /\ UNCHANGED <<chunkVars, total_chunks, base_window_size, base_stride,
                   recursive_window_size, recursive_stride, texts, start_idx,
                   new_summaries, new_chunk_ranges, current_summaries,
                   current_chunk_ranges, current_level, pyramid, windows,
                   calls>>

\* get_recursive_summaries returns; the level is appended to the pyramid and
\* becomes the current level.
RecursiveReturn ==
    /\ pc = "recursive"
    /\ ~(start_idx < Len(current_summaries))
    /\ pyramid' = AppendLevel(pyramid, <<new_summaries, new_chunk_ranges>>)
    /\ current_summaries' = new_summaries
    /\ current_chunk_ranges' = new_chunk_ranges
    /\ pc' = "loop"
    /\ UNCHANGED <<chunkVars, failed_call, total_chunks, base_window_size, base_stride,
                   recursive_window_size, recursive_stride, texts, start_idx,
                   new_summaries, new_chunk_ranges, current_level, windows,
                   calls>>

\* The while loop is left and the pyramid is returned.
PyramidReturn ==
    /\ pc = "loop"
    /\ ~(Len(current_summaries) > 1)
    /\ pc' = "done"
    /\ UNCHANGED <<chunkVars, failed_call, total_chunks, base_window_size, base_stride,
                   recursive_window_size, recursive_stride, texts, start_idx,
                   new_summaries, new_chunk_ranges, current_summaries,
                   current_chunk_ranges, current_level, pyramid, windows,
                   calls>>

\* Variant of Converged that also accepts a top level without a summary.
ConvergedAtMostOne(levels) == Len(levels[Len(levels)][1]) <= 1

\* main: if len(pyramid[-1][0]) == 1
Converged(levels) == Len(levels[Len(levels)][1]) = 1

\* main, after get_summary_pyramid has returned and the levels are written:
\* the pyramid has a single top-level summary and the final answer is
\* generated from it.
MainFinalAnswer ==
    /\ pc = "done"
    /\ Converged(pyramid)
    /\ pc' = "answered"
    /\ UNCHANGED <<chunkVars, failed_call, total_chunks, base_window_size,
                   base_stride, recursive_window_size, recursive_stride, texts,
                   start_idx, new_summaries, new_chunk_ranges,
                   current_summaries, current_chunk_ranges, current_level,
                   pyramid, windows, calls>>

\* main: the pyramid has a single top-level summary and the
\* get_final_answer call raises; nothing in main catches the exception,
\* which leaves main before final_answer.txt and final_summary.txt are
\* written.  The reduction calls of the build have all returned.
MainFinalAnswerFails ==
    /\ pc = "done"
    /\ Converged(pyramid)
    /\ pc' = "final_raised"
    /\ UNCHANGED <<chunkVars, failed_call, total_chunks, base_window_size,
                   base_stride, recursive_window_size, recursive_stride, texts,
                   start_idx, new_summaries, new_chunk_ranges,
                   current_summaries, current_chunk_ranges, current_level,
                   pyramid, windows, calls>>

\* main: the top level does not hold exactly one summary; a warning is
\* printed and no final answer is generated.
MainNoFinalAnswer ==
    /\ pc = "done"
    /\ ~Converged(pyramid)
    /\ pc' = "warned"
    /\ UNCHANGED <<chunkVars, failed_call, total_chunks, base_window_size,
                   base_stride, recursive_window_size, recursive_stride, texts,
                   start_idx, new_summaries, new_chunk_ranges,
                   current_summaries, current_chunk_ranges, current_level,
                   pyramid, windows, calls>>

Next ==
    \/ BaseWindow
    \/ BaseReduceFails
    \/ BaseReturn
    \/ LoopEnter
    \/ RecursiveWindow
    \/ RecursiveReduceFails
    \/ RecursiveReturn
    \/ PyramidReturn
    \/ MainFinalAnswer
    \/ MainFinalAnswerFails
    \/ MainNoFinalAnswer

Spec == Init /\ [][Next]_vars

\* The build is a sequential loop: whenever a step is possible, it is taken.
FairSpec == Init /\ [][Next]_vars /\ WF_vars(Next)

\* ------------------------------------------------- chunk_document: state
\* The documents explored: up to MaxWords words, short or long, ending a
\* sentence or not, separated by a blank, a newline or a blank line (with or
\* without a blank before it), optionally followed by trailing whitespace.
WordKinds == {ShortWord, LongWord} \X BOOLEAN
Separators == {<<sp>>, <<nl>>, <<nl, nl>>, <<sp, nl, nl>>}
Trailers == {<<>>, <<sp>>, <<nl>>}
RECURSIVE BuildDocument(_, _, _, _)
BuildDocument(kinds, seps, trailer, i) ==
    IF i > Len(kinds) THEN trailer
    ELSE <<Word(i, kinds[i][1], kinds[i][2])>>
            \o (IF i < Len(kinds) THEN seps[i] ELSE <<>>)
            \o BuildDocument(kinds, seps, trailer, i + 1)

\* A call frame of chunk_document: its argument, the chunks list once tiers
\* 1-3 have run, the verification loop's position and verified_chunks.
Frame(doc) ==
    [document |-> doc, segmented |-> FALSE, chunks |-> <<>>, i |-> 1,
     verified_chunks |-> <<>>]
Top == stack[Len(stack)]

\* chunk_document(doc, budget) has just been called
ChunkCall(doc, budget) ==
    /\ cpc = "run"
    /\ document = doc
    /\ tokens_per_chunk = budget
    /\ stack = <<Frame(doc)>>
    /\ result = <<>>
    /\ token_requests = 0

\* The one-paragraph documents explored beside them: up to MaxSentenceWords
\* short words separated by single blanks, each ending a sentence or not.
SentenceDocument(ends) ==
    BuildDocument([i \in 1..Len(ends) |-> <<ShortWord, ends[i]>>],
                  [i \in 1..(Len(ends) - 1) |-> <<sp>>], <<>>, 1)

ChunkInit ==
    /\ PyramidIdle
    /\ \/ \E n \in 0..MaxWords, budget \in 1..MaxBudget, trailer \in Trailers :
            \E kinds \in [1..n -> WordKinds],
               seps \in [1..(n - 1) -> Separators] :
                ChunkCall(BuildDocument(kinds, seps, trailer, 1), budget)
       \/ \E n \in 0..MaxSentenceWords, budget \in 1..MaxBudget :
            \E ends \in [1..n -> BOOLEAN] :
                ChunkCall(SentenceDocument(ends), budget)

\* ----------------------------------------------- chunk_document: actions
\* Tiers 1-3 of the innermost call: paragraphs, sentences and words are
\* packed into the chunks list.
Segment ==
    /\ cpc = "run"
    /\ ~Top.segmented
    /\ stack' = [stack EXCEPT ![Len(stack)] =
                    [@ EXCEPT !.segmented = TRUE,
                              !.chunks = FirstPass(Top.document, tokens_per_chunk)]]
    /\ token_requests' =
          token_requests + FirstPassRequests(Top.document, tokens_per_chunk)
    /\ UNCHANGED <<pyramidVars, cpc, document, tokens_per_chunk, result>>

\* Verification loop: the chunk is short, or within the 10% tolerance, and
\* is kept.
VerifyKeep ==
    /\ cpc = "run"
    /\ Top.segmented
    /\ Top.i <= Len(Top.chunks)
    /\ ~NeedsResplit(Top.chunks[Top.i], tokens_per_chunk)
    /\ stack' = [stack EXCEPT ![Len(stack)] =
                    [@ EXCEPT !.verified_chunks = Append(@, Top.chunks[Top.i]),
                              !.i = @ + 1]]
    /\ token_requests' = token_requests + VerifyRequests(Top.chunks[Top.i])
    /\ UNCHANGED <<pyramidVars, cpc, document, tokens_per_chunk, result>>

\* Verification loop: the chunk is long and over the tolerance;
\* chunk_document is called on it.
VerifyResplit ==
    /\ cpc = "run"
    /\ Top.segmented
    /\ Top.i <= Len(Top.chunks)
    /\ NeedsResplit(Top.chunks[Top.i], tokens_per_chunk)
    /\ Len(stack) < MaxDepth
    /\ stack' = Append(stack, Frame(Top.chunks[Top.i]))
    /\ token_requests' = token_requests + VerifyRequests(Top.chunks[Top.i])
    /\ UNCHANGED <<pyramidVars, cpc, document, tokens_per_chunk, result>>

\* The innermost call returns verified_chunks: to the caller of
\* chunk_document, or to the verification loop of the enclosing call, which
\* extends its own verified_chunks with them.
ChunkReturn ==
    /\ cpc = "run"
    /\ Top.segmented
    /\ Top.i > Len(Top.chunks)
    /\ IF Len(stack) = 1
       THEN /\ result' = Top.verified_chunks
            /\ stack' = <<>>
            /\ cpc' = "done"
       ELSE /\ stack' = [SubSeq(stack, 1, Len(stack) - 1) EXCEPT
                            ![Len(stack) - 1] =
                               [@ EXCEPT !.verified_chunks = @ \o Top.verified_chunks,
                                         !.i = @ + 1]]
            /\ UNCHANGED <<result, cpc>>
    /\ UNCHANGED <<pyramidVars, document, tokens_per_chunk, token_requests>>

ChunkNext ==
    \/ Segment
    \/ VerifyKeep
    \/ VerifyResplit
    \/ ChunkReturn

ChunkSpec == ChunkInit /\ [][ChunkNext]_vars

\* ------------------------------------------------- level bookkeeping
\* The pass that built level k: the base pass for level 1, a recursive pass
\* for every later level.
LevelWindow(k) == IF k = 1 THEN base_window_size ELSE recursive_window_size
LevelStride(k) == IF k = 1 THEN base_stride ELSE recursive_stride
\* number of items the pass of level k slides over
LevelItems(k) == IF k = 1 THEN total_chunks ELSE Len(pyramid[k - 1][1])
LevelRanges(k) == pyramid[k][2]
CeilDiv(n, s) == (n + s - 1) \div s
\* number of windows of level k that contain list position i
Containing(k, i) ==
    Cardinality({j \in 1..Len(windows[k]) :
                    windows[k][j][1] <= i /\ i <= windows[k][j][2]})

\* ------------------------------------------------------------------ C1
\* C1: for N >= 1 chunks and every window size >= 1 and stride >= 1,
\* get_summary_pyramid terminates: the loop that builds levels while the
\* current level has more than one summary is eventually left.
\* The next level is a function of the current level's ranges alone, so the
\* loop is eventually left exactly when it never comes back to its head
\* with the ranges of a level it has already been at.
C1_LoopNeverRepeatsLevel ==
    (total_chunks >= 1 /\ pc = "loop") =>
        \A k \in 1..(Len(pyramid) - 1) : pyramid[k][2] # current_chunk_ranges

\* The liveness reading of C1, for FairSpec: the build eventually returns.
C1_EventuallyReturns == (total_chunks >= 1) => <>(pc \in {"done", "raised"})

\* ------------------------------------------------------------------ C2
\* C2: whenever get_summary_pyramid returns for N >= 1 chunks, the last
\* level holds exactly one summary, whose range starts at the first chunk
\* and ends at the last chunk.
C2_TerminalCoversDocument ==
    (pc = "done" /\ total_chunks >= 1) =>
        /\ Len(pyramid[Len(pyramid)][1]) = 1
        /\ LevelRanges(Len(pyramid)) = << <<1, total_chunks>> >>

\* ------------------------------------------------------------------ C3
\* C3: whenever a level of the pyramid under construction holds more than
\* one summary, the level built from it holds strictly fewer summaries.
C3_LevelsShrink ==
    \A k \in 1..(Len(pyramid) - 1) :
        Len(pyramid[k][1]) > 1 => Len(pyramid[k + 1][1]) < Len(pyramid[k][1])

\* ------------------------------------------------------------------ C7
\* C7: for n >= 1 items and 1 <= stride <= windowSize, the windows reduced
\* at one level cover every index 0..n-1; each index lies in exactly one
\* window when stride = windowSize and in at least one when stride <
\* windowSize.
C7_WindowsCover ==
    \A k \in 1..Len(pyramid) :
        (LevelItems(k) >= 1 /\ LevelStride(k) <= LevelWindow(k)) =>
            \A i \in 0..(LevelItems(k) - 1) :
                IF LevelStride(k) = LevelWindow(k)
                THEN Containing(k, i) = 1
                ELSE Containing(k, i) >= 1

\* A base level tiled exactly once by several windows and a recursive level
\* covered by several overlapping windows have both been built.
C7_Witness ==
    /\ pc = "done"
    /\ Len(pyramid) >= 3
    /\ base_stride = base_window_size /\ Len(windows[1]) >= 2
    /\ recursive_stride < recursive_window_size /\ Len(windows[2]) >= 2

\* ------------------------------------------------------------------ C8
\* C8: in every level of every pyramid built from N >= 1 chunks, the
\* summaries' range ends are non-decreasing in list position, the first
\* range starts at the first chunk and the last range ends at the last chunk.
C8_LevelRangesSpanDocument ==
    (total_chunks >= 1) =>
        \A k \in 1..Len(pyramid) :
            LET r == LevelRanges(k)
            IN  /\ Len(r) >= 1
                /\ \A i \in 1..(Len(r) - 1) : r[i][2] <= r[i + 1][2]
                /\ r[1][1] = 1
                /\ r[Len(r)][2] = total_chunks

\* ------------------------------------------------------------------ C9
\* C9 as stated: when stride < windowSize, consecutive summaries of a level
\* have abutting ranges: rangeStart of i+1 equals rangeEnd of i plus one.
C9_RangesAbut ==
    \A k \in 1..Len(pyramid) :
        (LevelStride(k) < LevelWindow(k)) =>
            \A i \in 1..(Len(LevelRanges(k)) - 1) :
                LevelRanges(k)[i + 1][1] = LevelRanges(k)[i][2] + 1

\* C9 amended: when stride < windowSize, consecutive summaries of a level
\* have ranges that leave no gap and overlap: rangeStart of i+1 is at most
\* rangeEnd of i (the two ranges share at least one chunk), as each recorded
\* range is the range of its window and the two windows share items.
C9_RangesOverlap ==
    \A k \in 1..Len(pyramid) :
        (LevelStride(k) < LevelWindow(k)) =>
            \A i \in 1..(Len(LevelRanges(k)) - 1) :
                LevelRanges(k)[i + 1][1] <= LevelRanges(k)[i][2]

\* Overlapping windows produced several summaries at the base level and at
\* a recursive level.
C9_Witness ==
    /\ pc = "done"
    /\ base_stride < base_window_size /\ Len(LevelRanges(1)) >= 3
    /\ recursive_stride < recursive_window_size
    /\ Len(pyramid) >= 2 /\ Len(LevelRanges(2)) >= 2

\* ----------------------------------------------------------------- C10
\* C10: for n >= 1 items, window w >= 1 and stride s >= 1 the windows
\* reduced at one level are exactly [k*s, min(k*s + w - 1, n - 1)] for
\* k = 0, 1, ... while k*s < n, in increasing k, one reduction call per
\* window, so a level of n items yields ceil(n/s) summaries (23 chunks with
\* window 10, stride 9 give 3 base summaries; 3 summaries with window 5,
\* stride 4 give 1).
C10_WindowPlan ==
    /\ \A k \in 1..Len(windows) :
          LET n == LevelItems(k)
              w == LevelWindow(k)
              s == LevelStride(k)
          IN  /\ \A j \in 1..Len(windows[k]) :
                    /\ (j - 1) * s < n
                    /\ windows[k][j] =
                         <<(j - 1) * s, Min((j - 1) * s + w - 1, n - 1)>>
              /\ (k <= Len(pyramid)) =>
                    /\ Len(windows[k]) = CeilDiv(n, s)
                    /\ Len(pyramid[k][1]) = CeilDiv(n, s)
                    /\ Len(pyramid[k][2]) = CeilDiv(n, s)
    /\ LET Sum[k \in 0..Len(windows)] ==
               IF k = 0 THEN 0 ELSE Sum[k - 1] + Len(windows[k])
       IN  calls = Sum[Len(windows)]
    /\ (/\ pc = "done"
        /\ total_chunks = 23
        /\ base_window_size = 10 /\ base_stride = 9
        /\ recursive_window_size = 5 /\ recursive_stride = 4) =>
            /\ Len(pyramid) = 2
            /\ windows[1] = << <<0, 9>>, <<9, 18>>, <<18, 22>> >>
            /\ windows[2] = << <<0, 2>> >>

\* The worked example has been built: 3 base summaries, then 1.
C10_Witness ==
    /\ pc = "done"
    /\ total_chunks = 23
    /\ base_window_size = 10 /\ base_stride = 9
    /\ recursive_window_size = 5 /\ recursive_stride = 4
    /\ Len(pyramid[1][1]) = 3
    /\ Len(pyramid[2][1]) = 1
    /\ calls = 4

\* ------------------------------------------------------------------ C4
\* ids of the words of a chunk, in the order they stand in the chunk
WordIds(chunk) == [j \in 1..Len(Split(chunk)) |-> Split(chunk)[j][1].id]

\* C4: reading the chunks returned by chunk_document in list order yields
\* the document's words in their original order: a word that precedes
\* another in the document never stands in a later chunk, nor after it
\* inside the same chunk.
C4_ChunksKeepWordOrder ==
    (cpc = "done") =>
        \A c1 \in 1..Len(result), c2 \in 1..Len(result) :
            \A j1 \in 1..Len(WordIds(result[c1])), j2 \in 1..Len(WordIds(result[c2])) :
                (WordIds(result[c1])[j1] < WordIds(result[c2])[j2]) =>
                    /\ c1 <= c2
                    /\ (c1 = c2) => (j1 < j2)

\* ------------------------------------------------------------------ C5
\* C5: every chunk returned by chunk_document has an estimated token count
\* (floor(1.5 x number of words)) of at most the budget.
C5_ChunksWithinBudget ==
    (cpc = "done") =>
        \A c \in 1..Len(result) : estimate_tokens(result[c]) <= tokens_per_chunk

\* ------------------------------------------------------------------ C6
\* C6: chunk_document terminates and returns without raising: the
\* re-segmentation of a chunk whose count exceeds 1.1 x B never returns that
\* same chunk unchanged, so the recursion reaches chunks that trigger no
\* further re-segmentation.
C6_ResplitChangesChunk ==
    \A d \in 2..Len(stack) :
        stack[d].segmented => stack[d].chunks # <<stack[d].document>>

\* ----------------------------------------------------------------- C11
\* C11 as stated: for a document of exactly one chunk, get_summary_pyramid
\* returns a pyramid of exactly one level holding exactly one summary whose
\* range covers only that chunk, and no reduction call is made during the
\* build.
C11_SingleChunkNoCall ==
    (pc = "done" /\ total_chunks = 1) =>
        /\ Len(pyramid) = 1
        /\ Len(pyramid[1][1]) = 1
        /\ LevelRanges(1) = << <<1, 1>> >>
        /\ calls = 0 /\ failed_call = 0

\* C11 amended: for a document of exactly one chunk, get_summary_pyramid
\* returns a pyramid of exactly one level holding exactly one summary whose
\* range covers only that chunk, and exactly one reduction call is made
\* during the build: the base summary of that chunk.
C11_SingleChunkOneCall ==
    (pc = "done" /\ total_chunks = 1) =>
        /\ Len(pyramid) = 1
        /\ Len(pyramid[1][1]) = 1
        /\ LevelRanges(1) = << <<1, 1>> >>
        /\ calls = 1 /\ failed_call = 0
        /\ windows = << << <<0, 0>> >> >>

\* The pyramid of a one-chunk document has been returned, for a base window
\* larger than the document.
C11_Witness ==
    /\ pc = "done"
    /\ total_chunks = 1
    /\ base_window_size > 1
    /\ Len(pyramid) = 1

\* ----------------------------------------------------------------- C12
\* C12 as stated: the first level of the pyramid returned has exactly one
\* entry per input chunk, in chunk order, and the entry for the chunk at
\* 0-based position i has rangeStart = rangeEnd = i.
C12_FirstLevelIsChunks ==
    (pc = "done") =>
        /\ Len(pyramid[1][1]) = total_chunks
        /\ Len(LevelRanges(1)) = total_chunks
        /\ \A i \in 0..(total_chunks - 1) : LevelRanges(1)[i + 1] = <<i, i>>

\* C12 amended: the first level of the pyramid returned has exactly one
\* entry per base window, in window order: ceil(N / base_stride) entries,
\* and the entry at 0-based position j has rangeStart = j * base_stride + 1
\* and rangeEnd = min(j * base_stride + base_window_size, N), inclusive
\* 1-based chunk numbers.
C12_FirstLevelIsBaseWindows ==
    (pc = "done") =>
        /\ Len(pyramid[1][1]) = CeilDiv(total_chunks, base_stride)
        /\ Len(LevelRanges(1)) = CeilDiv(total_chunks, base_stride)
        /\ \A j \in 0..(Len(LevelRanges(1)) - 1) :
              LevelRanges(1)[j + 1] =
                  <<j * base_stride + 1,
                    Min(j * base_stride + base_window_size, total_chunks)>>

\* A pyramid has been returned whose first level has several entries, fewer
\* than there are chunks, the last of them for a window cut short by the end
\* of the document.
C12_Witness ==
    /\ pc = "done"
    /\ Len(LevelRanges(1)) >= 2
    /\ Len(LevelRanges(1)) < total_chunks
    /\ LevelRanges(1)[Len(LevelRanges(1))][2] - LevelRanges(1)[Len(LevelRanges(1))][1]
          < base_window_size - 1

\* ----------------------------------------------------------------- C13
\* Builds requested with any stride from 0 up: the configurations of Spec
\* and those with a stride of 0 at the base pass, the recursive pass or both.
ConfigInit ==
    /\ ChunkIdle
    /\ \E n \in 0..MaxChunks, bw \in 1..MaxWindow, bs \in 0..MaxStride,
          rw \in 1..MaxWindow, rs \in 0..MaxStride :
          PyramidCall(n, bw, bs, rw, rs)

ConfigSpec == ConfigInit /\ [][Next]_vars

\* C13: a build requested with stride = 0 is rejected with an error before
\* any window is planned and before any reduction call is made: in a build
\* with a stride of 0 no window is ever reduced and no reduction call is
\* ever made.
C13_ZeroStrideRejected ==
    (base_stride = 0 \/ recursive_stride = 0) =>
        /\ \A k \in 1..Len(windows) : windows[k] = <<>>
        /\ calls = 0 /\ failed_call = 0

\* ----------------------------------------------------------------- C14
\* C14: a build requested with stride > windowSize is rejected before any
\* reduction call is made, so no pyramid is ever returned in which some
\* chunk index lies in no summary's range at some level: in every level of
\* every pyramid returned, every chunk of the document lies in the range of
\* some summary of that level.
C14_NoLevelSkipsChunk ==
    (pc = "done") =>
        \A k \in 1..Len(pyramid) :
            \A c \in 1..total_chunks :
                \E i \in 1..Len(LevelRanges(k)) :
                    LevelRanges(k)[i][1] <= c /\ c <= LevelRanges(k)[i][2]

\* ----------------------------------------------------------------- C15
\* C15: if the reduction call fails for any window at any level,
\* get_summary_pyramid aborts with that failure: from the failure on the
\* build stays aborted, the only reduction calls made are those made before
\* the failing one, the pyramid holds no more than the levels completed
\* before it, and nothing is returned.
C15_FailureAborts ==
    (failed_call # 0) =>
        /\ pc = "raised"
        /\ calls = failed_call - 1
        /\ Len(pyramid) = Len(windows) - 1
        /\ Len(new_summaries) = Len(windows[Len(windows)])

\* After some windows had been reduced, the reduction call of a window of a
\* recursive level has failed.
C15_Witness ==
    /\ pc = "raised"
    /\ failed_call >= 4
    /\ Len(windows) >= 2
    /\ windows[Len(windows)] # <<>>

\* ----------------------------------------------------------------- C16
\* Level k is in the pyramid with all its summaries: one per window of the
\* pass over the level's items.
LevelComplete(k) ==
    /\ k <= Len(pyramid)
    /\ Len(windows[k]) = CeilDiv(LevelItems(k), LevelStride(k))
    /\ Len(pyramid[k][1]) = Len(windows[k])
    /\ Len(pyramid[k][2]) = Len(windows[k])

\* Every level in the pyramid is fully populated, a level whose pass has
\* reduced a window comes after completed levels only, and of the levels
\* begun at most the last is missing from the pyramid.
LevelsComplete ==
    /\ \A k \in 1..Len(pyramid) : LevelComplete(k)
    /\ \A k \in 2..Len(windows) :
          (windows[k] # <<>>) => \A j \in 1..(k - 1) : LevelComplete(j)
    /\ Len(pyramid) \in {Len(windows) - 1, Len(windows)}

\* A step adds at most one level, at the end, and leaves every level
\* already in the pyramid as it was.
LevelsAppendOnly ==
    /\ Len(pyramid') \in {Len(pyramid), Len(pyramid) + 1}
    /\ \A k \in 1..Len(pyramid) : pyramid'[k] = pyramid[k]

\* C16: levels are built under a strict barrier: no reduction call for
\* level k+1 starts before every window of level k has been reduced; a
\* level is appended to the pyramid only once all of its summaries exist,
\* it is appended exactly once, and no later step changes an already
\* appended level.
C16_LevelBarrier == []LevelsComplete /\ [][LevelsAppendOnly]_vars

\* A third level is under construction, with a window already reduced,
\* above two levels of several summaries each.
C16_Witness ==
    /\ pc = "recursive"
    /\ Len(windows) = 3 /\ windows[3] # <<>>
    /\ Len(pyramid) = 2
    /\ Len(pyramid[1][1]) >= 3 /\ Len(pyramid[2][1]) >= 2

\* ----------------------------------------------------------------- C17
\* Builds whose reduction calls return either of two texts, call by call,
\* for the configurations whose recursive stride is at least 2.
TextInit ==
    /\ ChunkIdle
    /\ \E n \in 0..MaxTextChunks, bw \in 1..MaxWindow, bs \in 1..MaxStride,
          rw \in 1..MaxWindow, rs \in 2..MaxStride :
          PyramidCallTexts(n, bw, bs, rw, rs, {"s", "t"})

TextSpec == TextInit /\ [][Next]_vars

\* The ranges of the base level, from the number of chunks, the base window
\* and the base stride alone.
PlannedBaseRanges ==
    [j \in 1..CeilDiv(total_chunks, base_stride) |->
        <<(j - 1) * base_stride + 1,
          Min((j - 1) * base_stride + base_window_size, total_chunks)>>]

\* The ranges of the level above a level of ranges r, from r, the recursive
\* window and the recursive stride alone.
PlannedNextRanges(r) ==
    [j \in 1..CeilDiv(Len(r), recursive_stride) |->
        <<r[(j - 1) * recursive_stride + 1][1],
          r[Min((j - 1) * recursive_stride + recursive_window_size, Len(r))][2]>>]

\* The ranges of all levels from level r on.
RECURSIVE PlannedLevels(_)
PlannedLevels(r) ==
    IF Len(r) > 1 THEN <<r>> \o PlannedLevels(PlannedNextRanges(r)) ELSE <<r>>

\* C17: two builds over the same number of chunks with the same window
\* sizes and strides produce the same pyramid structure, whatever texts the
\* reduction calls return in either build: the levels of a returned
\* pyramid, the number of summaries of each and the range of every summary
\* are those planned from the number of chunks, the window sizes and the
\* strides, in which no text takes part.
C17_StructureFromParameters ==
    (pc = "done") =>
        /\ Len(pyramid) = Len(PlannedLevels(PlannedBaseRanges))
        /\ \A k \in 1..Len(pyramid) :
              /\ LevelRanges(k) = PlannedLevels(PlannedBaseRanges)[k]
              /\ Len(pyramid[k][1]) = Len(LevelRanges(k))

\* A pyramid of three levels or more has been returned whose base level
\* holds both texts and whose top summary is the second text.
C17_Witness ==
    /\ pc = "done"
    /\ Len(pyramid) >= 3
    /\ \E i, j \in 1..Len(pyramid[1][1]) :
          pyramid[1][1][i] = "s" /\ pyramid[1][1][j] = "t"
    /\ pyramid[Len(pyramid)][1] = <<"t">>

\* ----------------------------------------------------------------- C18
\* the windows of level k that item i is an input of
WindowsOf(k, i) ==
    {j \in 1..Len(windows[k]) :
        windows[k][j][1] <= i /\ i <= windows[k][j][2]}

\* Item i of level k is an input of at most two windows, consecutive ones
\* when two.
InAtMostTwoWindows(k, i) ==
    /\ Cardinality(WindowsOf(k, i)) <= 2
    /\ \A a, b \in WindowsOf(k, i) : a - b <= 1

\* C18 as stated: when 1 <= stride < windowSize, every item of a level is
\* given as input to at most two windows, and when it is given to two they
\* are consecutive windows.
C18_AtMostTwoWindows ==
    \A k \in 1..Len(windows) :
        (1 <= LevelStride(k) /\ LevelStride(k) < LevelWindow(k)) =>
            \A i \in 0..(LevelItems(k) - 1) : InAtMostTwoWindows(k, i)

\* C18 amended: when 1 <= stride < windowSize <= 2 x stride, every item of
\* a level is given as input to at most two windows, and when it is given
\* to two they are consecutive windows.
C18_AtMostTwoWindowsWideStride ==
    \A k \in 1..Len(windows) :
        (/\ 1 <= LevelStride(k)
         /\ LevelStride(k) < LevelWindow(k)
         /\ LevelWindow(k) <= 2 * LevelStride(k)) =>
            \A i \in 0..(LevelItems(k) - 1) : InAtMostTwoWindows(k, i)

\* A base level of five chunks has been reduced with window 3 and stride
\* 2: chunk 2 was an input of the first two windows, chunk 1 of the first
\* only.
C18_Witness ==
    /\ pc = "done"
    /\ total_chunks = 5
    /\ base_window_size = 3 /\ base_stride = 2
    /\ WindowsOf(1, 2) = {1, 2}
    /\ WindowsOf(1, 1) = {1}

\* ----------------------------------------------------------------- C19
\* C19: every chunk returned by chunk_document is a contiguous slice of the
\* document: if two words of the document are in the same chunk, every
\* word that lies between them in the document is in that chunk too.
C19_ChunksContiguous ==
    (cpc = "done") =>
        \A c \in 1..Len(result) :
            LET ids == {WordIds(result[c])[j] : j \in 1..Len(WordIds(result[c]))}
            IN  \A a \in ids, b \in ids :
                    \A x \in (a + 1)..(b - 1) : x \in ids

C20_ReturnedLongChunksWithinTolerance ==
    (cpc = "done") =>
        \A c \in 1..Len(result) :
            (CharLen(result[c]) > 1000) =>
                10 * count_tokens(result[c]) <= 11 * tokens_per_chunk

\* No call that returns has re-segmented a chunk: the returned list is the
\* list of tiers 1-3, none of whose chunks needed re-segmentation.
C20_ReturnedWithoutReplacement ==
    (cpc = "done") =>
        /\ result = FirstPass(document, tokens_per_chunk)
        /\ \A c \in 1..Len(result) :
              ~NeedsResplit(result[c], tokens_per_chunk)

\* ----------------------------------------------------------------- C21
\* the paragraphs of the document that the paragraph loop does not skip
Paragraphs == SelectSeq(SplitParagraphs(document), LAMBDA p : Strip(p) # <<>>)

\* the token counts of the paragraphs ps
ParagraphCounts(ps) == [i \in 1..Len(ps) |-> estimate_tokens(ps[i])]

\* the sum of the token counts of paragraphs a..b
RunCount(counts, a, b) ==
    LET sum[j \in (a - 1)..b] ==
            IF j = a - 1 THEN 0 ELSE sum[j - 1] + counts[j]
    IN  sum[b]

\* Paragraphs a..b are each within the budget and, joined by blank lines,
\* are one returned chunk.
IsParagraphChunk(ps, counts, a, b) ==
    /\ \A j \in a..b : counts[j] <= tokens_per_chunk
    /\ \E c \in 1..Len(result) :
          result[c] = Join(SubSeq(ps, a, b), <<nl, nl>>)

\* C21: in the paragraph tier, a paragraph whose token count is at most B
\* joins the current buffer exactly when bufferTokens + paragraphTokens <=
\* B, otherwise the buffer is flushed as one chunk and the paragraph starts
\* a new buffer; a paragraph whose count exceeds B first flushes any pending
\* buffer; hence the token counts of the paragraphs packed into any one
\* paragraph-tier chunk sum to at most B.  On the returned list: every
\* paragraph within the budget lies in a chunk made of a run a..b of
\* consecutive paragraphs within the budget whose counts sum to at most B;
\* the run starts at the document's first paragraph, after a paragraph over
\* the budget, or where the paragraph did not fit the run before it; it ends
\* at the last paragraph, before a paragraph over the budget, or where the
\* next paragraph does not fit.
C21_ParagraphPacking ==
    (cpc = "done") =>
        LET ps == Paragraphs
            counts == ParagraphCounts(ps)
        IN  \A i \in 1..Len(ps) :
                (counts[i] <= tokens_per_chunk) =>
                    \E a \in 1..i, b \in i..Len(ps) :
                        /\ IsParagraphChunk(ps, counts, a, b)
                        /\ RunCount(counts, a, b) <= tokens_per_chunk
                        /\ (b < Len(ps) /\ counts[b + 1] <= tokens_per_chunk) =>
                              RunCount(counts, a, b + 1) > tokens_per_chunk
                        /\ (a > 1 /\ counts[a - 1] <= tokens_per_chunk) =>
                              \E a0 \in 1..(a - 1) :
                                  /\ IsParagraphChunk(ps, counts, a0, a - 1)
                                  /\ RunCount(counts, a0, a) > tokens_per_chunk

\* A document of three paragraphs has been chunked: the first two were
\* packed into one chunk that the third did not fit.
C21_Witness ==
    /\ cpc = "done"
    /\ Len(Paragraphs) = 3
    /\ IsParagraphChunk(Paragraphs, ParagraphCounts(Paragraphs), 1, 2)
    /\ IsParagraphChunk(Paragraphs, ParagraphCounts(Paragraphs), 3, 3)
    /\ RunCount(ParagraphCounts(Paragraphs), 1, 3) > tokens_per_chunk

\* A pending buffer has been flushed before a paragraph over the budget.
C21_WitnessFlush ==
    /\ cpc = "done"
    /\ Len(Paragraphs) >= 2
    /\ IsParagraphChunk(Paragraphs, ParagraphCounts(Paragraphs), 1, 1)
    /\ ParagraphCounts(Paragraphs)[2] > tokens_per_chunk
    /\ result[1] = Paragraphs[1]

\* ----------------------------------------------------------------- C22
\* the summaries and the ranges of level k, appended or under construction
SummariesOf(k) == IF k <= Len(pyramid) THEN pyramid[k][1] ELSE new_summaries
RangesOf(k) == IF k <= Len(pyramid) THEN pyramid[k][2] ELSE new_chunk_ranges

\* Every recursive level has one summary and one range per window reduced,
\* and the i-th range runs from the range start of the first summary of the
\* i-th window to the range end of its last summary.
RecursiveRangesFromWindows ==
    \A k \in 2..Len(windows) :
        /\ Len(SummariesOf(k)) = Len(windows[k])
        /\ Len(RangesOf(k)) = Len(windows[k])
        /\ \A i \in 1..Len(windows[k]) :
              RangesOf(k)[i] =
                  <<LevelRanges(k - 1)[windows[k][i][1] + 1][1],
                    LevelRanges(k - 1)[windows[k][i][2] + 1][2]>>

\* The step that reduces a window of a recursive level puts the text it was
\* given after the summaries of the windows before it, which stay as they
\* are; the step that returns the level puts these lists in the pyramid.
RecursiveSummariesInWindowOrder ==
    /\ (pc = "recursive" /\ calls' = calls + 1) =>
          /\ Len(new_summaries') = Len(new_summaries) + 1
          /\ SubSeq(new_summaries', 1, Len(new_summaries)) = new_summaries
          /\ new_summaries'[Len(new_summaries')] \in texts
          /\ Len(windows'[current_level]) = Len(new_summaries')
    /\ (pc = "recursive" /\ pc' = "loop") =>
          pyramid'[Len(pyramid')] = <<new_summaries, new_chunk_ranges>>

\* C22: in get_recursive_summaries the i-th summary of the new level is the
\* one produced from the i-th window, and its range is (rangeStart of the
\* first summary in that window, rangeEnd of the last summary in that
\* window).
C22_RecursiveLevelFromWindows ==
    []RecursiveRangesFromWindows /\ [][RecursiveSummariesInWindowOrder]_vars

\* A pyramid has been returned whose second level holds two different
\* texts, for two windows of several summaries each.
C22_Witness ==
    /\ pc = "done"
    /\ Len(pyramid) >= 3
    /\ pyramid[2][1] = <<"s", "t">>
    /\ windows[2][1][2] > windows[2][1][1]
    /\ windows[2][2][2] > windows[2][2][1]

\* ----------------------------------------------------------------- C23
\* chunk_document called with any budget from 0 up: the calls of ChunkSpec
\* and those with a budget of 0, under which every word costs more than the
\* budget.
AnyBudgetInit ==
    /\ PyramidIdle
    /\ \/ \E n \in 0..MaxWords, budget \in 0..MaxBudget, trailer \in Trailers :
            \E kinds \in [1..n -> WordKinds],
               seps \in [1..(n - 1) -> Separators] :
                ChunkCall(BuildDocument(kinds, seps, trailer, 1), budget)
       \/ \E n \in 0..MaxSentenceWords, budget \in 0..MaxBudget :
            \E ends \in [1..n -> BOOLEAN] :
                ChunkCall(SentenceDocument(ends), budget)

AnyBudgetSpec == AnyBudgetInit /\ [][ChunkNext]_vars

\* C23: in the word tier of chunk_document, a word whose own token cost
\* exceeds the budget is still emitted, as a chunk containing only that
\* word; it is never dropped from the output and never raises an error,
\* wherever it stands in the sentence (first word included).  A word that
\* costs more than the budget makes its sentence and its paragraph cost
\* more than the budget, so it always reaches the word tier: whenever
\* chunk_document returns, each such word of the document is a returned
\* chunk by itself.
C23_OversizedWordEmittedAlone ==
    (cpc = "done") =>
        \A w \in 1..Len(Split(document)) :
            (estimate_tokens(Split(document)[w] \o <<sp>>) > tokens_per_chunk) =>
                \E c \in 1..Len(result) : WordIds(result[c]) = <<w>>

\* ----------------------------------------------------------------- C25
\* the occurrences, as <<chunk, position>>, of word in the list chunks_words
\* of the chunks' word lists
Occurrences(chunks_words, word) ==
    {cj \in UNION {{<<c, j>> : j \in 1..Len(chunks_words[c])} :
                      c \in 1..Len(chunks_words)} :
        chunks_words[cj[1]][cj[2]] = word}

\* C25: for every document and budget B >= 1 on which chunk_document
\* returns, every word occurrence of the document appears in exactly one
\* returned chunk: no word is dropped and none is duplicated (the multiset
\* of words of all chunks equals that of the document), regardless of chunk
\* order.
C25_WordsKept ==
    (cpc = "done" /\ tokens_per_chunk >= 1) =>
        LET words == Split(document)
            chunks_words == [c \in 1..Len(result) |-> Split(result[c])]
        IN  /\ \A w \in 1..Len(words) :
                  Cardinality(Occurrences(chunks_words, words[w])) = 1
            /\ \A c \in 1..Len(chunks_words) :
                  \A j \in 1..Len(chunks_words[c]) :
                      \E w \in 1..Len(words) : chunks_words[c][j] = words[w]

\* chunk_document has returned the four words of a document in two chunks,
\* out of document order.
C25_Witness ==
    /\ cpc = "done"
    /\ tokens_per_chunk >= 1
    /\ Len(Split(document)) = 4
    /\ Len(result) = 2
    /\ WordIds(result[1])[1] # 1

\* ----------------------------------------------------------------- C26
\* C26: for N >= 1 chunks, window size >= 1 and stride >= 1, every range
\* (start, end) recorded at every level of the pyramid satisfies
\* 1 <= start <= end <= N, and within a level both start and end are
\* non-decreasing in list position.  Checked of the levels in the pyramid
\* and of the level under construction.
C26_RangesWithinDocument ==
    (total_chunks >= 1) =>
        \A k \in 1..Len(windows) :
            LET r == RangesOf(k)
            IN  /\ \A i \in 1..Len(r) :
                      /\ 1 <= r[i][1]
                      /\ r[i][1] <= r[i][2]
                      /\ r[i][2] <= total_chunks
                /\ \A i \in 1..(Len(r) - 1) :
                      /\ r[i][1] <= r[i + 1][1]
                      /\ r[i][2] <= r[i + 1][2]

\* A pyramid of three levels or more has been returned whose base level has
\* three ranges or more, the last two of them ending at the same chunk.
C26_Witness ==
    /\ pc = "done"
    /\ Len(pyramid) >= 3
    /\ Len(LevelRanges(1)) >= 3
    /\ LevelRanges(1)[Len(LevelRanges(1))][2]
          = LevelRanges(1)[Len(LevelRanges(1)) - 1][2]
    /\ Len(LevelRanges(2)) >= 2

\* ----------------------------------------------------------------- C27
\* C27: every chunk returned by chunk_document contains at least one word:
\* no empty or whitespace-only chunk is ever emitted.
C27_NoEmptyChunk ==
    (cpc = "done") =>
        \A c \in 1..Len(result) : Split(result[c]) # <<>>

\* ----------------------------------------------------------------- C28
\* Window j of level k holds an item that window j - 1 does not hold.
BringsNewItem(k, j) ==
    \E i \in windows[k][j][1]..windows[k][j][2] :
        ~(windows[k][j - 1][1] <= i /\ i <= windows[k][j - 1][2])

\* C28 as stated: when 1 <= stride < windowSize, every window after the first
\* contains at least one item that the preceding window does not contain:
\* no reduction call is made on a window that is entirely included in the
\* previous window.
C28_WindowsBringNewItems ==
    \A k \in 1..Len(windows) :
        (1 <= LevelStride(k) /\ LevelStride(k) < LevelWindow(k)) =>
            \A j \in 2..Len(windows[k]) : BringsNewItem(k, j)

\* C28 amended: when 1 <= stride < windowSize, a window after the first
\* contains at least one item that the preceding window does not contain
\* exactly when the preceding window does not end at the last item of the
\* level; a window that follows a window ending at the last item is
\* entirely included in it, and a reduction call is made on it all the
\* same.
C28_NewItemsUnlessAtEnd ==
    /\ \A k \in 1..Len(windows) :
          (1 <= LevelStride(k) /\ LevelStride(k) < LevelWindow(k)) =>
              \A j \in 2..Len(windows[k]) :
                  BringsNewItem(k, j) <=>
                      (windows[k][j - 1][2] < LevelItems(k) - 1)
    /\ LET Sum[k \in 0..Len(windows)] ==
               IF k = 0 THEN 0 ELSE Sum[k - 1] + Len(windows[k])
       IN  calls = Sum[Len(windows)]

\* A base level has been reduced with overlapping windows: the second
\* window brought new chunks, the third and last one only held chunks of
\* the second.
C28_Witness ==
    /\ pc = "done"
    /\ base_stride < base_window_size
    /\ Len(windows[1]) = 3
    /\ BringsNewItem(1, 2)
    /\ ~BringsNewItem(1, 3)

\* ----------------------------------------------------------------- C29
\* C29: get_summary_pyramid called with an empty chunk list makes no
\* reduction call, terminates, and returns a pyramid of exactly one level
\* that contains no summary; main then generates no final answer for it.
\* A build over no chunk never enters a window loop body nor the level
\* loop, no call is made or fails, what is returned is the one empty level,
\* and the run always goes on to main's warning, never to the final answer.
C29_EmptyDocument ==
    /\ [](total_chunks = 0 /\ pc # "idle" =>
            /\ pc \in {"base", "loop", "done", "warned"}
            /\ calls = 0 /\ failed_call = 0
            /\ windows = << <<>> >>
            /\ (pc \in {"done", "warned"}) => pyramid = << <<<<>>, <<>>>> >>)
    /\ (total_chunks = 0 /\ pc # "idle") ~> (pc = "warned")

\* The build over an empty chunk list has returned its one empty level and
\* main has printed its warning.
C29_Witness ==
    /\ total_chunks = 0
    /\ pc = "warned"
    /\ Len(pyramid) = 1
    /\ pyramid[1][1] = <<>>

\* ----------------------------------------------------------------- C30
\* floor(1.5 x number of words), the words counted as the word tokens of
\* the text
WordEstimate(text) ==
    (3 * Cardinality({i \in 1..Len(text) : text[i].k = "w"})) \div 2

\* the texts a call of chunk_document on doc hands to the token counting:
\* its paragraphs, their sentences and its chunks
MeasuredTexts(frame) ==
    LET paragraphs == SplitParagraphs(frame.document)
        SentencesOf(paragraph) ==
            LET sentences == SplitSentences(paragraph)
            IN  {sentences[j] : j \in 1..Len(sentences)}
    IN  {paragraphs[i] : i \in 1..Len(paragraphs)}
        \cup UNION {SentencesOf(paragraphs[i]) : i \in 1..Len(paragraphs)}
        \cup {frame.chunks[c] : c \in 1..Len(frame.chunks)}

\* C30: TokenCounter.count_tokens returns exactly estimate_tokens(text) for
\* every text and never reaches the rate-limit wait or the external
\* token-counting request, so throughout chunk_document the measured count
\* of a text always equals its estimate floor(1.5 x number of words): no
\* request is ever sent, and for every paragraph, sentence and chunk of
\* the innermost running call (which every call is, before and after it
\* has built its chunks) the count is floor(1.5 x number of words).
C30_CountIsEstimate ==
    /\ token_requests = 0
    /\ (stack # <<>>) =>
          \A text \in MeasuredTexts(Top) :
              count_tokens(text) = WordEstimate(text)

\* chunk_document has returned one chunk of more than 1000 characters, so
\* that count_tokens was called for a paragraph near the budget and for the
\* chunk in the verification loop.
C30_Witness ==
    /\ cpc = "done"
    /\ Len(result) = 1
    /\ CharLen(result[1]) > VerifyLength
    /\ NearBudget(estimate_tokens(document), tokens_per_chunk)
    /\ token_requests = 0

====
